---- MODULE Spec2Model ----
(***************************************************************************)
(* Streaming element parsers of the worksheet sub-documents                *)
(* (dataValidations / dataValidation / formula text capture, sheetViews /  *)
(* sheetView / pane) and the raw -> processed conversion of a validation   *)
(* rule.  The XML cursor is a forward-only source of events; the parsers   *)
(* are the loops of raw/.../data_validation.rs and raw/.../sheet_view.rs,  *)
(* one action per loop iteration (one read_event_into and its match).      *)
(***************************************************************************)
EXTENDS Integers, Sequences, FiniteSets, TLC

(* ------------------------------ bounds --------------------------------- *)
\* events the cursor delivers before the input ends; the attributes of the
\* start-tag an element parser is called with count as events
MaxEvents == 6
\* nesting depth of the elements below the container
MaxDepth == 3
\* attributes carried by one start-tag
MaxAttrs == 2

(* ------------------------------ options -------------------------------- *)
\* Option<T>: None is the empty sequence, Some(v) the one-element sequence
None == <<>>
Some(v) == <<v>>
IsSome(o) == o # <<>>
UnwrapOr(o, d) == IF o = <<>> THEN d ELSE o[1]

\* anyhow::Result<T>
Ok(v) == [ok |-> TRUE, val |-> v, msg |-> ""]
Err(m) == [ok |-> FALSE, val |-> <<>>, msg |-> m]

(* ------------------------------ bytes ---------------------------------- *)
\* a byte string that is not valid UTF-8
BadBytes == "<0xFF>"
\* String::from_utf8(bytes.to_vec()): the text verbatim, or a FromUtf8Error
Utf8ErrMsg == "invalid utf-8 sequence"
FromUtf8(b) == IF b = BadBytes THEN Err(Utf8ErrMsg) ELSE Ok(b)

(* ------------------------- scalar coercion helpers --------------------- *)
\* helper::string_to_bool
string_to_bool(s) ==
    IF s \in {"1", "true"} THEN Some(TRUE)
    ELSE IF s \in {"0", "false"} THEN Some(FALSE)
    ELSE None

\* str::parse::<bool>() of the standard library, then .ok()
parse_bool(s) ==
    IF s = "true" THEN Some(TRUE)
    ELSE IF s = "false" THEN Some(FALSE)
    ELSE None

\* helper::string_to_float; an f64 is held in tenths
string_to_float(s) ==
    IF s = "2310" THEN Some(23100)
    ELSE IF s = "2070" THEN Some(20700)
    ELSE IF s = "1.5" THEN Some(15)
    ELSE None

\* helper::string_to_unsignedint
string_to_unsignedint(s) ==
    IF s = "2310" THEN Some(2310)
    ELSE IF s = "2070" THEN Some(2070)
    ELSE IF s = "2" THEN Some(2)
    ELSE None

(* ------------------------------ attributes ----------------------------- *)
\* one item of e.attributes(): Ok(key = value bytes) or a malformed attribute
Attr(k, v) == [key |-> k, val |-> v, ok |-> TRUE]
MalformedAttr == [key |-> "<malformed>", val |-> "", ok |-> FALSE]
AttrErrMsg == "error while parsing attribute"

DVBoolKeys == {"allowBlank", "showDropDown", "showErrorMessage", "showInputMessage"}
DVStringKeys == {"error", "errorTitle", "operator", "prompt", "promptTitle", "sqref", "type"}
UnknownKey == "xr:uid"
BoolTexts == {"1", "true", "0", "false", "yes"}

\* the attributes a dataValidation start-tag is given here
DVAttrOptions ==
    {Attr(k, v) : k \in DVBoolKeys, v \in {"1", "yes"}}
    \cup {Attr(k, "list") : k \in DVStringKeys}
    \cup {Attr("allowBlank", "0"), Attr("type", "")}
    \cup {Attr(k, BadBytes) : k \in {"prompt", UnknownKey}}
    \cup {Attr(UnknownKey, "x"), MalformedAttr}

PaneStringKeys == {"activePane", "state", "topLeftCell"}
PaneFloatKeys == {"xSplit", "ySplit"}
PaneUintKeys == {"splitHorizontal", "splitVertical"}
PaneBoolKeys == {"thinHorizontal", "thinVertical"}
NumberTexts == {"2310", "1.5", "abc"}

\* the attributes a pane start-tag is given here
PaneAttrOptions ==
    {Attr(k, "C1") : k \in PaneStringKeys}
    \cup {Attr(k, v) : k \in PaneFloatKeys \cup PaneUintKeys, v \in NumberTexts}
    \cup {Attr(k, v) : k \in PaneBoolKeys, v \in BoolTexts}
    \cup {Attr(k, BadBytes) : k \in {"state", "xSplit", UnknownKey}}
    \cup {Attr(UnknownKey, "x"), MalformedAttr}

\* attribute lists of at most n attributes
RECURSIVE AttrSeqs(_, _)
AttrSeqs(opts, n) ==
    IF n = 0 THEN {<<>>}
    ELSE LET S == AttrSeqs(opts, n - 1)
         IN S \cup {Append(s, a) : s \in {x \in S : Len(x) = n - 1}, a \in opts}

\* a start-tag holds no attribute name twice (the attribute iterator reports
\* a repeated name as a malformed attribute)
DistinctKeys(s) == \A i, j \in 1..Len(s) : i # j => s[i].key # s[j].key

\* the start-tags an element parser is called with
DVAttrLists == {s \in AttrSeqs(DVAttrOptions, MaxAttrs) : DistinctKeys(s)}
PaneAttrLists == {s \in AttrSeqs(PaneAttrOptions, MaxAttrs) : DistinctKeys(s)}

\* the start-tags of the children of a container
ScenarioRuleTag ==
    <<Attr("type", "list"), Attr("allowBlank", "1"), Attr("showInputMessage", "1"),
      Attr("showErrorMessage", "1"), Attr("sqref", "A1:A10")>>
SampleRuleTags ==
    {<<>>, ScenarioRuleTag,
     <<Attr("sqref", "B2"), Attr("showDropDown", "yes")>>,
     <<Attr("prompt", BadBytes)>>, <<MalformedAttr>>}
ScenarioPaneTag ==
    <<Attr("xSplit", "2310"), Attr("ySplit", "2070"), Attr("topLeftCell", "C1"),
      Attr("activePane", "bottomRight")>>
SamplePaneTags ==
    {<<>>, ScenarioPaneTag,
     <<Attr("thinHorizontal", "1"), Attr("splitVertical", "abc")>>,
     <<Attr("state", BadBytes)>>, <<MalformedAttr>>}

(* ------------------------------ raw records ---------------------------- *)
\* XlsxDataValidation { .. all None }
EmptyDataValidation ==
    [formula1 |-> None, formula2 |-> None, allow_blank |-> None,
     error_message |-> None, error_title |-> None, operator |-> None,
     prompt |-> None, prompt_title |-> None, show_drop_down |-> None,
     show_error_message |-> None, show_input_message |-> None,
     sqref |-> None, type |-> None]

\* DVSetAttr with the showInputMessage arm assigning show_error_message
DVSetAttr_swapped(rec, key, s) ==
    CASE key = "allowBlank" -> [rec EXCEPT !.allow_blank = string_to_bool(s)]
      [] key = "error" -> [rec EXCEPT !.error_message = Some(s)]
      [] key = "errorTitle" -> [rec EXCEPT !.error_title = Some(s)]
      [] key = "operator" -> [rec EXCEPT !.operator = Some(s)]
      [] key = "prompt" -> [rec EXCEPT !.prompt = Some(s)]
      [] key = "promptTitle" -> [rec EXCEPT !.prompt_title = Some(s)]
      [] key = "showDropDown" -> [rec EXCEPT !.show_drop_down = string_to_bool(s)]
      [] key = "showErrorMessage" -> [rec EXCEPT !.show_error_message = string_to_bool(s)]
      [] key = "showInputMessage" -> [rec EXCEPT !.show_error_message = string_to_bool(s)]
      [] key = "sqref" -> [rec EXCEPT !.sqref = Some(s)]
      [] key = "type" -> [rec EXCEPT !.type = Some(s)]
      [] OTHER -> rec

\* the match on a.key.local_name() of XlsxDataValidation::load
DVSetAttr(rec, key, s) ==
    CASE key = "allowBlank" -> [rec EXCEPT !.allow_blank = string_to_bool(s)]
      [] key = "error" -> [rec EXCEPT !.error_message = Some(s)]
      [] key = "errorTitle" -> [rec EXCEPT !.error_title = Some(s)]
      [] key = "operator" -> [rec EXCEPT !.operator = Some(s)]
      [] key = "prompt" -> [rec EXCEPT !.prompt = Some(s)]
      [] key = "promptTitle" -> [rec EXCEPT !.prompt_title = Some(s)]
      [] key = "showDropDown" -> [rec EXCEPT !.show_drop_down = string_to_bool(s)]
      [] key = "showErrorMessage" -> [rec EXCEPT !.show_error_message = string_to_bool(s)]
      [] key = "showInputMessage" -> [rec EXCEPT !.show_input_message = string_to_bool(s)]
      [] key = "sqref" -> [rec EXCEPT !.sqref = Some(s)]
      [] key = "type" -> [rec EXCEPT !.type = Some(s)]
      [] OTHER -> rec

\* DVAttrLoop failing on a boolean attribute whose text is not a boolean
RECURSIVE DVAttrLoop_strict(_, _)
DVAttrLoop_strict(rec, attrs) ==
    IF attrs = <<>> THEN Ok(rec)
    ELSE LET a == Head(attrs)
         IN IF ~a.ok THEN Err(AttrErrMsg)
            ELSE IF ~FromUtf8(a.val).ok THEN Err(FromUtf8(a.val).msg)
            ELSE IF a.key \in DVBoolKeys /\ string_to_bool(a.val) = None
            THEN Err("invalid boolean")
            ELSE DVAttrLoop_strict(DVSetAttr(rec, a.key, FromUtf8(a.val).val), Tail(attrs))

\* the attribute loop of XlsxDataValidation::load
RECURSIVE DVAttrLoop(_, _)
DVAttrLoop(rec, attrs) ==
    IF attrs = <<>> THEN Ok(rec)
    ELSE LET a == Head(attrs)
         IN IF ~a.ok THEN Err(AttrErrMsg)
            ELSE IF ~FromUtf8(a.val).ok THEN Err(FromUtf8(a.val).msg)
            ELSE DVAttrLoop(DVSetAttr(rec, a.key, FromUtf8(a.val).val), Tail(attrs))

\* XlsxPane { .. all None }
EmptyPane ==
    [active_pane |-> None, state |-> None, top_left_cell |-> None,
     x_split |-> None, y_split |-> None, split_horizontal |-> None,
     split_vertical |-> None, thin_horizontal |-> None, thin_vertical |-> None]

\* `if let Some(x) = coerce(&value) { field = Some(x) }`
SetIfSome(old, o) == IF IsSome(o) THEN o ELSE old

\* the match on key of XlsxPane::load
PaneSetAttr(rec, key, s) ==
    CASE key = "activePane" -> [rec EXCEPT !.active_pane = Some(s)]
      [] key = "state" -> [rec EXCEPT !.state = Some(s)]
      [] key = "topLeftCell" -> [rec EXCEPT !.top_left_cell = Some(s)]
      [] key = "xSplit" -> [rec EXCEPT !.x_split = SetIfSome(@, string_to_float(s))]
      [] key = "ySplit" -> [rec EXCEPT !.y_split = SetIfSome(@, string_to_float(s))]
      [] key = "splitHorizontal" ->
            [rec EXCEPT !.split_horizontal = SetIfSome(@, string_to_unsignedint(s))]
      [] key = "splitVertical" ->
            [rec EXCEPT !.split_vertical = SetIfSome(@, string_to_unsignedint(s))]
      [] key = "thinHorizontal" ->
            [rec EXCEPT !.thin_horizontal = SetIfSome(@, parse_bool(s))]
      [] key = "thinVertical" ->
            [rec EXCEPT !.thin_vertical = SetIfSome(@, parse_bool(s))]
      [] OTHER -> rec

\* PaneAttrLoop passing over a malformed attribute
RECURSIVE PaneAttrLoop_lenient(_, _)
PaneAttrLoop_lenient(rec, attrs) ==
    IF attrs = <<>> THEN Ok(rec)
    ELSE LET a == Head(attrs)
         IN IF ~a.ok THEN PaneAttrLoop_lenient(rec, Tail(attrs))
            ELSE IF ~FromUtf8(a.val).ok THEN Err(FromUtf8(a.val).msg)
            ELSE PaneAttrLoop_lenient(PaneSetAttr(rec, a.key, FromUtf8(a.val).val),
                                      Tail(attrs))

\* the attribute loop of XlsxPane::load
RECURSIVE PaneAttrLoop(_, _)
PaneAttrLoop(rec, attrs) ==
    IF attrs = <<>> THEN Ok(rec)
    ELSE LET a == Head(attrs)
         IN IF ~a.ok THEN Err(AttrErrMsg)
            ELSE IF ~FromUtf8(a.val).ok THEN Err(FromUtf8(a.val).msg)
            ELSE PaneAttrLoop(PaneSetAttr(rec, a.key, FromUtf8(a.val).val), Tail(attrs))

\* XlsxPane::load
PaneLoad(attrs) == PaneAttrLoop(EmptyPane, attrs)

(* --------------------------- processed record -------------------------- *)
\* from_raw with the type defaulted to the schema's "none"
from_raw_typeNone(raw) ==
    [allow_blank |-> UnwrapOr(raw.allow_blank, FALSE),
     error_message |-> raw.error_message,
     error_title |-> raw.error_title,
     formula1 |-> raw.formula1,
     formula2 |-> raw.formula2,
     operator |-> raw.operator,
     prompt |-> raw.prompt,
     prompt_title |-> raw.prompt_title,
     show_drop_down |-> UnwrapOr(raw.show_drop_down, FALSE),
     show_error_message |-> UnwrapOr(raw.show_error_message, FALSE),
     show_input_message |-> UnwrapOr(raw.show_input_message, FALSE),
     sqref |-> UnwrapOr(raw.sqref, ""),
     type |-> UnwrapOr(raw.type, "none")]

\* from_raw with allow_blank defaulted to true and the prompt title taken
\* from the prompt
from_raw_defaults(raw) ==
    [allow_blank |-> UnwrapOr(raw.allow_blank, TRUE),
     error_message |-> raw.error_message,
     error_title |-> raw.error_title,
     formula1 |-> raw.formula1,
     formula2 |-> raw.formula2,
     operator |-> raw.operator,
     prompt |-> raw.prompt,
     prompt_title |-> raw.prompt,
     show_drop_down |-> UnwrapOr(raw.show_drop_down, FALSE),
     show_error_message |-> UnwrapOr(raw.show_error_message, FALSE),
     show_input_message |-> UnwrapOr(raw.show_input_message, FALSE),
     sqref |-> UnwrapOr(raw.sqref, ""),
     type |-> UnwrapOr(raw.type, "")]

\* DataValidation::from_raw
from_raw(raw) ==
    [allow_blank |-> UnwrapOr(raw.allow_blank, FALSE),
     error_message |-> raw.error_message,
     error_title |-> raw.error_title,
     formula1 |-> raw.formula1,
     formula2 |-> raw.formula2,
     operator |-> raw.operator,
     prompt |-> raw.prompt,
     prompt_title |-> raw.prompt_title,
     show_drop_down |-> UnwrapOr(raw.show_drop_down, FALSE),
     show_error_message |-> UnwrapOr(raw.show_error_message, FALSE),
     show_input_message |-> UnwrapOr(raw.show_input_message, FALSE),
     sqref |-> UnwrapOr(raw.sqref, ""),
     type |-> UnwrapOr(raw.type, "")]

(* ------------------------------ state ---------------------------------- *)
VARIABLES
    entry,      \* the top-level call: "dataValidations", "sheetViews",
                \* "dataValidation", "pane" or "from_raw"
    arg,        \* its argument: the start-tag's attributes, or the raw record
    open,       \* cursor: the elements open at the cursor's position, outermost first
    nread,      \* cursor: events delivered so far
    atEof,      \* cursor: end-of-input was reached
    frames,     \* the parser calls in progress, outermost first
    dvs,        \* XlsxDataValidations::load: data_validations
    dv,         \* XlsxDataValidation::load: data_validation
    slot,       \* the field the pending load_formula result is assigned to
    views,      \* load_sheet_views: sheet_views
    view,       \* XlsxSheetView::load: sheet_view
    skip,       \* read_to_end_into: the name skipped to and the nesting depth;
                \* base (not read by the parsers) counts the elements open
                \* around the element being skipped
    status,     \* "running", "ok" or "err": the outcome of the top-level call
    ret,        \* the value returned with Ok
    errmsg,     \* the message returned with Err
    processed,  \* the processed rules, once converted
    doc         \* what the document held, by position (not read by the parsers)

cursor == <<open, nread, atEof, doc>>
locals == <<dvs, dv, slot, views, view, skip>>
outcome == <<status, ret, errmsg>>
vars == <<entry, arg, open, nread, atEof, frames, dvs, dv, slot,
          views, view, skip, status, ret, errmsg, processed, doc>>

(* ------------------------------ events --------------------------------- *)
Event(k, name, attrs, text) == [k |-> k, name |-> name, attrs |-> attrs, text |-> text]
EofEvent == Event("Eof", "", <<>>, "")
ErrEvent == Event("Err", "", <<>>, "")
CommentEvent == Event("Comment", "", <<>>, "")

Texts == {"=A1", "\"a,b\"", BadBytes}
FormulaNames == {"formula1", "formula2"}
ElementNames ==
    [dataValidations |-> {"dataValidations", "dataValidation", "formula1", "formula2", "extLst"},
     dataValidation |-> {"formula1", "formula2"},
     sheetViews |-> {"sheetViews", "sheetView", "pane", "selection"}]

CursorErrMsg == "ill-formed document"

\* the attributes a start-tag named nm carries
StartAttrs(nm) ==
    IF nm = "dataValidation" /\ entry = "dataValidations" THEN SampleRuleTags
    ELSE IF nm = "pane" THEN SamplePaneTags
    ELSE {<<>>}

\* the events the cursor may deliver next: a well-nested document, cut short
\* anywhere by end-of-input or by a cursor error; end-of-input is absorbing
NextEvents ==
    IF atEof \/ nread >= MaxEvents THEN {EofEvent}
    ELSE {EofEvent, ErrEvent, CommentEvent}
         \cup {Event("Text", "", <<>>, t) : t \in Texts}
         \cup (IF open # <<>> THEN {Event("End", open[Len(open)], <<>>, "")} ELSE {})
         \cup (IF Len(open) <= MaxDepth
               THEN UNION {{Event("Start", nm, a, "") : a \in StartAttrs(nm)} :
                            nm \in ElementNames[entry]}
               ELSE {})

\* the elements open around the children of a rule that is where the schema
\* puts it
RulePath ==
    IF entry = "dataValidations" THEN <<"dataValidations", "dataValidation">>
    ELSE <<"dataValidation">>

\* the schema position of a recognized element: the elements open around it
SchemaPosition(nm) ==
    IF nm = "dataValidation" /\ entry = "dataValidations" THEN <<"dataValidations">>
    ELSE IF nm \in FormulaNames THEN RulePath
    ELSE IF nm = "sheetView" THEN <<"sheetViews">>
    ELSE IF nm = "pane" THEN <<"sheetViews", "sheetView">>
    ELSE <<"<nowhere>">>

Recognized == {"dataValidations", "dataValidation", "formula1", "formula2",
               "sheetViews", "sheetView", "pane"}

\* the document as read so far, by position: the direct children of the
\* container, their attributes, the formula children of each rule with the
\* first text inside each, the pane child of each view; confusable once an
\* element with a recognized name stands where the schema does not put it
DocAfter(ev) ==
    LET atPos == ev.k = "Start" /\ open = SchemaPosition(ev.name)
        n == Len(RulePath)
        inFormula == /\ Len(open) > n
                     /\ SubSeq(open, 1, n) = RulePath
                     /\ open[n + 1] \in FormulaNames
    IN [doc EXCEPT
          !.rules =
              IF atPos /\ ev.name = "dataValidation"
              THEN Append(@, [attrs |-> ev.attrs, formula1 |-> None, formula2 |-> None])
              ELSE IF atPos /\ ev.name \in FormulaNames
              THEN [@ EXCEPT ![Len(@)] = [@ EXCEPT ![ev.name] = Some("")]]
              ELSE IF ev.k = "Text" /\ inFormula /\ doc.capturing
              THEN [@ EXCEPT ![Len(@)] = [@ EXCEPT ![open[n + 1]] = Some(ev.text)]]
              ELSE @,
          !.capturing =
              IF atPos /\ ev.name \in FormulaNames THEN TRUE
              ELSE IF ev.k = "Text" /\ inFormula THEN FALSE
              ELSE IF ev.k = "End" /\ Len(open) = n + 1 THEN FALSE
              ELSE @,
          !.views =
              IF atPos /\ ev.name = "sheetView" THEN Append(@, [pane |-> None])
              ELSE IF atPos /\ ev.name = "pane"
              THEN [@ EXCEPT ![Len(@)] = [pane |-> Some(ev.attrs)]]
              ELSE @,
          !.confusable =
              @ \/ (ev.k = "Start" /\ ev.name \in Recognized /\ ~atPos)]

\* reader.read_event_into(&mut buf): the cursor moves past ev
Deliver(ev) ==
    /\ open' = CASE ev.k = "Start" -> Append(open, ev.name)
                 [] ev.k = "End" -> SubSeq(open, 1, Len(open) - 1)
                 [] OTHER -> open
    /\ nread' = IF ev.k = "Eof" THEN nread ELSE nread + 1
    /\ atEof' = (atEof \/ ev.k = "Eof")
    /\ doc' = DocAfter(ev)

(* ------------------------------ parsers -------------------------------- *)
\* XlsxDataValidations { data_validations: vec![], count: None }
EmptyDataValidations == [data_validations |-> <<>>, count |-> None]
\* XlsxSheetView { pane: None }
EmptySheetView == [pane |-> None]
NoSkip == [name |-> "", depth |-> 0, base |-> 0]

Top == IF frames = <<>> THEN "" ELSE frames[Len(frames)]
Pop == SubSeq(frames, 1, Len(frames) - 1)

\* the element is quoted with ' here, with a backquote in the source
EofMsg(element) == "unexpected end of file at '" \o element \o "'"

\* the Eof arm of XlsxDataValidation::load naming the container
DataValidationEof_container == EofMsg("dataValidations")

\* the Eof arm of each loop
DataValidationsEof == EofMsg("dataValidations")
DataValidationEof == EofMsg("dataValidation")
SheetViewsEof == EofMsg("sheetViews")
SheetViewEof == EofMsg("sheetView")

\* bail!(..) or the ? operator: the error leaves every call in progress
Bail(m) ==
    /\ status' = "err"
    /\ errmsg' = m
    /\ ret' = <<>>
    /\ frames' = <<>>
    /\ dvs' = EmptyDataValidations
    /\ dv' = EmptyDataValidation
    /\ slot' = ""
    /\ views' = <<>>
    /\ view' = EmptySheetView
    /\ skip' = NoSkip

\* the initialisation and the attribute loop of XlsxDataValidation::load
DVLoadAttrs(attrs) == DVAttrLoop(EmptyDataValidation, attrs)

\* the value XlsxDataValidations::load returns at its end-tag
DataValidationsResult == dvs

\* ChildFailed dropping the failed rule and reading on
ChildFailed_skipped(m) == UNCHANGED <<frames, locals, outcome>>

\* XlsxDataValidation::load(reader, e)? in the container: the failure of a
\* rule is the failure of the container
ChildFailed(m) == Bail(m)

\* one iteration of the loop of XlsxDataValidations::load
DataValidationsLoad ==
    /\ status = "running"
    /\ Top = "dataValidations"
    /\ \E ev \in NextEvents :
         /\ Deliver(ev)
         /\ IF ev.k = "Start" /\ ev.name = "dataValidation"
            THEN LET r == DVLoadAttrs(ev.attrs)
                 IN IF r.ok
                    THEN /\ frames' = Append(frames, "dataValidation")
                         /\ dv' = r.val
                         /\ UNCHANGED <<dvs, slot, views, view, skip, outcome>>
                    ELSE ChildFailed(r.msg)
            ELSE IF ev.k = "End" /\ ev.name = "dataValidations"
            THEN /\ status' = "ok"
                 /\ ret' = DataValidationsResult
                 /\ frames' = <<>>
                 /\ dvs' = EmptyDataValidations
                 /\ UNCHANGED <<dv, slot, views, view, skip, errmsg>>
            ELSE IF ev.k = "Eof"
            THEN Bail(DataValidationsEof)
            ELSE IF ev.k = "Err"
            THEN Bail(CursorErrMsg)
            ELSE UNCHANGED <<frames, locals, outcome>>
    /\ UNCHANGED <<entry, arg, processed>>

\* PushRule inserting at the front
PushRule_front(c, rule) == [c EXCEPT !.data_validations = <<rule>> \o @]

\* data_validations.data_validations.push(..)
PushRule(c, rule) == [c EXCEPT !.data_validations = Append(@, rule)]

\* one iteration of the child loop of XlsxDataValidation::load
DataValidationLoad ==
    /\ status = "running"
    /\ Top = "dataValidation"
    /\ \E ev \in NextEvents :
         /\ Deliver(ev)
         /\ IF ev.k = "Start" /\ ev.name = "formula1"
            THEN /\ frames' = Append(frames, "load_formula")
                 /\ slot' = "formula1"
                 /\ UNCHANGED <<dvs, dv, views, view, skip, outcome>>
            ELSE IF ev.k = "Start" /\ ev.name = "formula2"
            THEN /\ frames' = Append(frames, "load_formula")
                 /\ slot' = "formula2"
                 /\ UNCHANGED <<dvs, dv, views, view, skip, outcome>>
            ELSE IF ev.k = "End" /\ ev.name = "dataValidation"
            THEN IF Len(frames) > 1
                 THEN /\ frames' = Pop
                      /\ dvs' = PushRule(dvs, dv)
                      /\ dv' = EmptyDataValidation
                      /\ UNCHANGED <<slot, views, view, skip, outcome>>
                 ELSE /\ status' = "ok"
                      /\ ret' = dv
                      /\ frames' = <<>>
                      /\ dv' = EmptyDataValidation
                      /\ UNCHANGED <<dvs, slot, views, view, skip, errmsg>>
            ELSE IF ev.k = "Eof"
            THEN Bail(DataValidationEof)
            ELSE IF ev.k = "Err"
            THEN Bail(CursorErrMsg)
            ELSE UNCHANGED <<frames, locals, outcome>>
    /\ UNCHANGED <<entry, arg, processed>>

\* SetFormula keeping the value of an earlier child of the same kind
SetFormula_first(rec, field, text) ==
    IF rec[field] # None THEN rec ELSE [rec EXCEPT ![field] = Some(text)]

\* data_validation.formula1 / formula2 = Some(Self::load_formula(reader)?)
SetFormula(rec, field, text) == [rec EXCEPT ![field] = Some(text)]

\* FormulaAtEnd leaving the field without a value
FormulaAtEnd_absent(rec, field) == rec

\* the end-tag arm of load_formula: return Ok(String::new())
FormulaAtEnd(rec, field) == SetFormula(rec, field, "")

\* LoadFormula reading every text up to the end-tag and keeping the last
LoadFormula_lastText ==
    /\ status = "running"
    /\ Top = "load_formula"
    /\ \E ev \in NextEvents :
         /\ Deliver(ev)
         /\ IF ev.k = "Text"
            THEN LET r == FromUtf8(ev.text)
                 IN IF r.ok
                    THEN /\ dv' = SetFormula(dv, slot, r.val)
                         /\ UNCHANGED <<frames, dvs, slot, views, view, skip, outcome>>
                    ELSE Bail(r.msg)
            ELSE IF ev.k = "End" /\ ev.name \in {"formula1", "formula2"}
            THEN /\ frames' = Pop
                 /\ dv' = IF dv[slot] = None THEN FormulaAtEnd(dv, slot) ELSE dv
                 /\ slot' = ""
                 /\ UNCHANGED <<dvs, views, view, skip, outcome>>
            ELSE IF ev.k = "Err"
            THEN Bail(CursorErrMsg)
            ELSE UNCHANGED <<frames, locals, outcome>>
    /\ UNCHANGED <<entry, arg, processed>>

\* one iteration of the loop of XlsxDataValidation::load_formula
LoadFormula ==
    /\ status = "running"
    /\ Top = "load_formula"
    /\ \E ev \in NextEvents :
         /\ Deliver(ev)
         /\ IF ev.k = "Text"
            THEN LET r == FromUtf8(ev.text)
                 IN IF r.ok
                    THEN /\ frames' = Pop
                         /\ dv' = SetFormula(dv, slot, r.val)
                         /\ slot' = ""
                         /\ UNCHANGED <<dvs, views, view, skip, outcome>>
                    ELSE Bail(r.msg)
            ELSE IF ev.k = "End" /\ ev.name \in {"formula1", "formula2"}
            THEN /\ frames' = Pop
                 /\ dv' = FormulaAtEnd(dv, slot)
                 /\ slot' = ""
                 /\ UNCHANGED <<dvs, views, view, skip, outcome>>
            ELSE IF ev.k = "Err"
            THEN Bail(CursorErrMsg)
            ELSE UNCHANGED <<frames, locals, outcome>>
    /\ UNCHANGED <<entry, arg, processed>>

\* one iteration of the loop of load_sheet_views
LoadSheetViews ==
    /\ status = "running"
    /\ Top = "sheetViews"
    /\ \E ev \in NextEvents :
         /\ Deliver(ev)
         /\ IF ev.k = "Start" /\ ev.name = "sheetView"
            THEN /\ frames' = Append(frames, "sheetView")
                 /\ view' = EmptySheetView
                 /\ UNCHANGED <<dvs, dv, slot, views, skip, outcome>>
            ELSE IF ev.k = "End" /\ ev.name = "sheetViews"
            THEN /\ status' = "ok"
                 /\ ret' = views
                 /\ frames' = <<>>
                 /\ views' = <<>>
                 /\ UNCHANGED <<dvs, dv, slot, view, skip, errmsg>>
            ELSE IF ev.k = "Eof"
            THEN Bail(SheetViewsEof)
            ELSE IF ev.k = "Err"
            THEN Bail(CursorErrMsg)
            ELSE UNCHANGED <<frames, locals, outcome>>
    /\ UNCHANGED <<entry, arg, processed>>

\* one iteration of the loop of XlsxSheetView::load
SheetViewLoad ==
    /\ status = "running"
    /\ Top = "sheetView"
    /\ \E ev \in NextEvents :
         /\ Deliver(ev)
         /\ IF ev.k = "Start" /\ ev.name = "pane"
            THEN LET r == PaneLoad(ev.attrs)
                 IN IF r.ok
                    THEN /\ view' = [view EXCEPT !.pane = Some(r.val)]
                         /\ frames' = Append(frames, "read_to_end")
                         /\ skip' = [name |-> ev.name, depth |-> 0, base |-> Len(open)]
                         /\ UNCHANGED <<dvs, dv, slot, views, outcome>>
                    ELSE Bail(r.msg)
            ELSE IF ev.k = "End" /\ ev.name = "sheetView"
            THEN /\ frames' = Pop
                 /\ views' = Append(views, view)
                 /\ view' = EmptySheetView
                 /\ UNCHANGED <<dvs, dv, slot, skip, outcome>>
            ELSE IF ev.k = "Eof"
            THEN Bail(SheetViewEof)
            ELSE IF ev.k = "Err"
            THEN Bail(CursorErrMsg)
            ELSE UNCHANGED <<frames, locals, outcome>>
    /\ UNCHANGED <<entry, arg, processed>>

MissingEndMsg(element) == "missing end tag of '" \o element \o "'"

\* SkipEnds stopping at the first end-tag of the name
SkipEnds_flat(s) == TRUE

\* read_to_end_into: an end-tag of the name ends the skip when no element of
\* that name opened inside the skipped one is still open
SkipEnds(s) == s.depth = 0

\* one event of reader.read_to_end_into(start_e.to_end().name(), ..)
ReadToEnd ==
    /\ status = "running"
    /\ Top = "read_to_end"
    /\ \E ev \in NextEvents :
         /\ Deliver(ev)
         /\ IF ev.k = "Start" /\ ev.name = skip.name
            THEN /\ skip' = [skip EXCEPT !.depth = @ + 1]
                 /\ UNCHANGED <<frames, dvs, dv, slot, views, view, outcome>>
            ELSE IF ev.k = "End" /\ ev.name = skip.name
            THEN IF SkipEnds(skip)
                 THEN /\ frames' = Pop
                      /\ skip' = NoSkip
                      /\ UNCHANGED <<dvs, dv, slot, views, view, outcome>>
                 ELSE /\ skip' = [skip EXCEPT !.depth = @ - 1]
                      /\ UNCHANGED <<frames, dvs, dv, slot, views, view, outcome>>
            ELSE IF ev.k = "Eof"
            THEN Bail(MissingEndMsg(skip.name))
            ELSE IF ev.k = "Err"
            THEN Bail(CursorErrMsg)
            ELSE UNCHANGED <<frames, locals, outcome>>
    /\ UNCHANGED <<entry, arg, processed>>

\* XlsxDataValidation::load called with the start-tag e: the attribute loop
DataValidationCall ==
    /\ status = "running"
    /\ entry = "dataValidation"
    /\ Top = "call"
    /\ LET r == DVLoadAttrs(arg)
       IN IF r.ok
          THEN /\ frames' = <<"dataValidation">>
               /\ dv' = r.val
               /\ UNCHANGED <<dvs, slot, views, view, skip, outcome>>
          ELSE Bail(r.msg)
    /\ UNCHANGED <<entry, arg, cursor, processed>>

\* XlsxPane::load called with the start-tag e
PaneCall ==
    /\ status = "running"
    /\ entry = "pane"
    /\ Top = "call"
    /\ LET r == PaneLoad(arg)
       IN IF r.ok
          THEN /\ status' = "ok"
               /\ ret' = r.val
               /\ frames' = <<>>
               /\ UNCHANGED <<locals, errmsg>>
          ELSE Bail(r.msg)
    /\ UNCHANGED <<entry, arg, cursor, processed>>

\* the raw rules handed to the conversion
RawRules ==
    IF entry = "dataValidations" THEN ret.data_validations
    ELSE IF entry = "dataValidation" THEN <<ret>>
    ELSE <<arg>>

\* DataValidation::from_raw on each raw rule
Convert ==
    /\ \/ status = "ok" /\ entry \in {"dataValidations", "dataValidation"}
       \/ status = "running" /\ entry = "from_raw"
    /\ processed = None
    /\ processed' = Some([i \in 1..Len(RawRules) |-> from_raw(RawRules[i])])
    /\ status' = "ok"
    /\ frames' = <<>>
    /\ UNCHANGED <<entry, arg, cursor, locals, ret, errmsg>>

(* ------------------------------ specification -------------------------- *)
\* the count attribute the container's start-tag may carry
CountTexts == {"2"}

\* every combination of present and absent fields of a raw rule
RawRecords ==
    [formula1 : {None, Some("=A1")}, formula2 : {None, Some("=A1")},
     allow_blank : {None, Some(TRUE), Some(FALSE)},
     error_message : {None, Some("list")}, error_title : {None, Some("list")},
     operator : {None, Some("list")}, prompt : {None, Some("list")},
     prompt_title : {None, Some("list")},
     show_drop_down : {None, Some(TRUE), Some(FALSE)},
     show_error_message : {None, Some(TRUE), Some(FALSE)},
     show_input_message : {None, Some(TRUE), Some(FALSE)},
     sqref : {None, Some(""), Some("A1:A10")},
     type : {None, Some(""), Some("list")}]

EmptyDoc == [rules |-> <<>>, views |-> <<>>, capturing |-> FALSE,
             confusable |-> FALSE, count |-> None]

InitCall(e, a, d) ==
    /\ entry = e
    /\ arg = a
    /\ open = IF e \in {"pane", "from_raw"} THEN <<>> ELSE <<e>>
    /\ nread = IF e = "dataValidation" THEN Len(a) ELSE 0
    /\ atEof = FALSE
    /\ frames = IF e \in {"dataValidations", "sheetViews"} THEN <<e>> ELSE <<"call">>
    /\ dvs = EmptyDataValidations
    /\ dv = EmptyDataValidation
    /\ slot = ""
    /\ views = <<>>
    /\ view = EmptySheetView
    /\ skip = NoSkip
    /\ status = "running"
    /\ ret = <<>>
    /\ errmsg = ""
    /\ processed = None
    /\ doc = d

Init ==
    \/ \E c \in {None} \cup {Some(t) : t \in CountTexts} :
         InitCall("dataValidations", <<>>, [EmptyDoc EXCEPT !.count = c])
    \/ InitCall("sheetViews", <<>>, EmptyDoc)
    \/ \E a \in DVAttrLists :
         InitCall("dataValidation", a,
                  [EmptyDoc EXCEPT !.rules = <<[attrs |-> a, formula1 |-> None,
                                                formula2 |-> None]>>])
    \/ \E a \in PaneAttrLists :
         InitCall("pane", a, [EmptyDoc EXCEPT !.views = <<[pane |-> Some(a)]>>])
    \/ \E r \in RawRecords : InitCall("from_raw", r, EmptyDoc)

Next ==
    \/ DataValidationsLoad
    \/ DataValidationLoad
    \/ LoadFormula
    \/ LoadSheetViews
    \/ SheetViewLoad
    \/ ReadToEnd
    \/ DataValidationCall
    \/ PaneCall
    \/ Convert

Spec == Init /\ [][Next]_vars

(* ------------------------------ reference ------------------------------ *)
\* what a document says, read off its positions rather than its event order
LastOf(I) == CHOOSE i \in I : \A j \in I : j <= i

\* the text of the attribute named key of a start-tag, if it carries one
AttrOf(attrs, key) ==
    LET I == {i \in 1..Len(attrs) : attrs[i].ok /\ attrs[i].key = key}
    IN IF I = {} THEN None ELSE Some(attrs[LastOf(I)].val)

\* the boolean coercion rule applied to an attribute that may be missing
BoolRule(o) == IF o = None THEN None ELSE string_to_bool(o[1])

\* the start-tag without its i-th attribute
Remove(s, i) == SubSeq(s, 1, i - 1) \o SubSeq(s, i + 1, Len(s))

\* every attribute is well formed and validly encoded
AllAttrsValid(attrs) ==
    \A i \in 1..Len(attrs) : attrs[i].ok /\ attrs[i].val # BadBytes

\* the raw record a rule element stands for
ExpectedRule(r) ==
    [formula1 |-> r.formula1,
     formula2 |-> r.formula2,
     allow_blank |-> BoolRule(AttrOf(r.attrs, "allowBlank")),
     error_message |-> AttrOf(r.attrs, "error"),
     error_title |-> AttrOf(r.attrs, "errorTitle"),
     operator |-> AttrOf(r.attrs, "operator"),
     prompt |-> AttrOf(r.attrs, "prompt"),
     prompt_title |-> AttrOf(r.attrs, "promptTitle"),
     show_drop_down |-> BoolRule(AttrOf(r.attrs, "showDropDown")),
     show_error_message |-> BoolRule(AttrOf(r.attrs, "showErrorMessage")),
     show_input_message |-> BoolRule(AttrOf(r.attrs, "showInputMessage")),
     sqref |-> AttrOf(r.attrs, "sqref"),
     type |-> AttrOf(r.attrs, "type")]

\* the raw rules a successful parse returned
ParsedRules == IF entry = "dataValidations" THEN ret.data_validations ELSE <<ret>>

RuleEntries == {"dataValidations", "dataValidation"}
EofElements == {"dataValidations", "dataValidation", "sheetViews", "sheetView"}

\* the raw field a dataValidation boolean attribute is stored in
DVBoolField(k) ==
    CASE k = "allowBlank" -> "allow_blank"
      [] k = "showDropDown" -> "show_drop_down"
      [] k = "showErrorMessage" -> "show_error_message"
      [] k = "showInputMessage" -> "show_input_message"

\* the raw field a pane attribute is stored in
PaneField(k) ==
    CASE k = "xSplit" -> "x_split"
      [] k = "ySplit" -> "y_split"
      [] k = "splitHorizontal" -> "split_horizontal"
      [] k = "splitVertical" -> "split_vertical"
      [] k = "thinHorizontal" -> "thin_horizontal"
      [] k = "thinVertical" -> "thin_vertical"

\* the i-th attribute of the start-tag is a soft coercion miss
DVSoftMiss(attrs, i) ==
    /\ attrs[i].ok
    /\ attrs[i].key \in DVBoolKeys
    /\ attrs[i].val # BadBytes
    /\ string_to_bool(attrs[i].val) = None
PaneSoftMiss(attrs, i) ==
    /\ attrs[i].ok
    /\ attrs[i].val # BadBytes
    /\ \/ attrs[i].key \in PaneFloatKeys /\ string_to_float(attrs[i].val) = None
       \/ attrs[i].key \in PaneUintKeys /\ string_to_unsignedint(attrs[i].val) = None

(* ------------------------------ properties ----------------------------- *)
\* C1: once the cursor has answered end-of-input, no parser call is still
\* running: the call has returned a value or an error. Fails in load_formula,
\* which has no end-of-input arm and reads the same answer forever.
C1_EndOfInputStopsTheParse == atEof => status # "running"

\* C2: when end-of-input arrives while the loop of a dataValidations,
\* dataValidation, sheetViews or sheetView element is the innermost one
\* running, the call fails with the message naming exactly that element and
\* returns no value; the same read off the document: the innermost open
\* element, standing where the schema puts it, is the one named.
C2_EofNamesInnermostElement ==
    [][\A el \in EofElements :
         /\ (status = "running" /\ Top = el /\ ~atEof /\ atEof')
              => (status' = "err" /\ errmsg' = EofMsg(el) /\ ret' = <<>>)
         /\ (/\ status = "running" /\ Top # "call" /\ ~doc.confusable
             /\ open # <<>> /\ open[Len(open)] = el /\ ~atEof /\ atEof')
              => (status' = "err" /\ errmsg' = EofMsg(el) /\ ret' = <<>>)]_vars

\* a rule cut short inside a container: the error names the rule
C2_Witness ==
    /\ entry = "dataValidations"
    /\ status = "err"
    /\ atEof
    /\ open = <<"dataValidations", "dataValidation">>
    /\ errmsg = EofMsg("dataValidation")

\* C3: a well-formed container with N rule children parses to exactly N raw
\* rules, the i-th being the i-th rule element of the document, and a
\* container read to its end-tag is never an error (N = 0 gives the empty
\* sequence). Containers holding a recognized name out of place are left out.
C3_RulesInDocumentOrder ==
    (entry = "dataValidations" /\ ~doc.confusable) =>
        /\ (open = <<>>) => status = "ok"
        /\ (status = "ok") =>
             /\ Len(ret.data_validations) = Len(doc.rules)
             /\ \A i \in 1..Len(doc.rules) :
                  ret.data_validations[i] = ExpectedRule(doc.rules[i])

\* two different rules returned in their document order
C3_Witness ==
    /\ entry = "dataValidations"
    /\ status = "ok"
    /\ ~doc.confusable
    /\ Len(doc.rules) = 2
    /\ doc.rules[1].attrs = <<>>
    /\ doc.rules[2].attrs = ScenarioRuleTag
    /\ ret.data_validations[2].type = Some("list")

\* C4: a formula child closed before any text gives Some("") for its field,
\* and a rule with no such child gives "no value" for it.
C4_EmptyFormulaIsPresent ==
    (entry \in RuleEntries /\ status = "ok" /\ ~doc.confusable) =>
        /\ Len(ParsedRules) = Len(doc.rules)
        /\ \A i \in 1..Len(doc.rules) : \A f \in FormulaNames :
             /\ (doc.rules[i][f] = Some("")) => ParsedRules[i][f] = Some("")
             /\ (doc.rules[i][f] = None) => ParsedRules[i][f] = None

\* a rule with an empty formula1 and no formula2
C4_Witness ==
    /\ entry = "dataValidation"
    /\ status = "ok"
    /\ ~doc.confusable
    /\ doc.rules[1].formula1 = Some("")
    /\ doc.rules[1].formula2 = None
    /\ ret.formula1 = Some("")
    /\ ret.formula2 = None

\* C5: thinHorizontal and thinVertical of a pane hold what the boolean
\* coercion rule gives for the attribute text. Fails for "1" and "0", which
\* XlsxPane::load parses with str::parse::<bool>.
C5_ThinFlagsFollowBoolRule ==
    (entry = "pane" /\ status = "ok") =>
        \A k \in PaneBoolKeys : ret[PaneField(k)] = BoolRule(AttrOf(arg, k))

\* C6: an attribute whose text fails its scalar coercion never fails the
\* load: a start-tag whose attributes are all well formed and validly encoded
\* passes the attribute phase, the missed field is "no value", and the record
\* is the one the start-tag without that attribute gives.
C6_SoftMissNeverAborts ==
    /\ (entry = "dataValidation" /\ AllAttrsValid(arg) /\ status = "err")
         => (nread > Len(arg) \/ atEof)
    /\ (entry = "dataValidation" /\ status = "ok" /\ ~doc.confusable) =>
         \A i \in 1..Len(arg) : DVSoftMiss(arg, i) =>
            /\ ret[DVBoolField(arg[i].key)] = None
            /\ ret = ExpectedRule([doc.rules[1] EXCEPT !.attrs = Remove(arg, i)])
    /\ (entry = "pane" /\ AllAttrsValid(arg)) => status # "err"
    /\ (entry = "pane" /\ status = "ok") =>
         \A i \in 1..Len(arg) : PaneSoftMiss(arg, i) =>
            /\ ret[PaneField(arg[i].key)] = None
            /\ ret = PaneLoad(Remove(arg, i)).val

\* a rule loaded with showDropDown="yes" next to a type
C6_Witness ==
    /\ entry = "dataValidation"
    /\ status = "ok"
    /\ arg = <<Attr("showDropDown", "yes"), Attr("type", "list")>>
    /\ ret.show_drop_down = None
    /\ ret.type = Some("list")

\* C7 as stated: a raw rule without a type converts to a processed rule that
\* differs from the one the same raw rule with type="" converts to.
C7_TypeStaysOptional ==
    (entry = "from_raw" /\ processed # None /\ arg.type = None) =>
        processed[1][1] # from_raw([arg EXCEPT !.type = Some("")])

\* C7 amended: the processed type is a plain string, the raw text when there
\* is one and "" when there is none.
C7_TypeDefaultsToEmpty ==
    (processed # None) =>
        \A i \in 1..Len(RawRules) :
            processed[1][i].type =
                (IF RawRules[i].type = None THEN "" ELSE RawRules[i].type[1])

\* a raw rule without a type, converted
C7_Witness ==
    /\ entry = "from_raw"
    /\ processed # None
    /\ arg.type = None
    /\ processed[1][1].type = ""

\* C8: from_raw gives a processed record for every raw record: the four
\* flags are the raw value or false, sqref the raw text or "", and the other
\* seven fields the raw field itself.
C8_FromRawDefaults ==
    /\ (entry = "from_raw" /\ status = "running") => ENABLED Convert
    /\ (processed # None) =>
         \A i \in 1..Len(RawRules) :
            LET r == RawRules[i]
                p == processed[1][i]
            IN /\ \A k \in DVBoolKeys :
                    /\ p[DVBoolField(k)] \in BOOLEAN
                    /\ p[DVBoolField(k)] =
                         (IF r[DVBoolField(k)] = None THEN FALSE
                          ELSE r[DVBoolField(k)][1])
               /\ p.sqref = (IF r.sqref = None THEN "" ELSE r.sqref[1])
               /\ \A f \in {"error_message", "error_title", "formula1", "formula2",
                            "operator", "prompt", "prompt_title"} : p[f] = r[f]

\* a raw rule with nothing but a prompt, converted
C8_Witness ==
    /\ entry = "from_raw"
    /\ processed # None
    /\ arg.allow_blank = None
    /\ arg.sqref = None
    /\ arg.prompt_title = None
    /\ arg.prompt = Some("list")
    /\ processed[1][1].allow_blank = FALSE

\* C9: the count of the returned container is the number its start-tag
\* gives, "no value" when it gives none. Fails whenever the start-tag has a
\* count: XlsxDataValidations::load never assigns the field.
C9_CountIsRecorded ==
    (entry = "dataValidations" /\ status = "ok") =>
        ret.count = (IF doc.count = None THEN None
                     ELSE string_to_unsignedint(doc.count[1]))

\* C10: a well-formed rule with valid attributes, parsed and converted: type
\* and sqref are the attribute text, a flag given as "1" is true, a flag not
\* given is false, formula1 is its text and a missing formula2 "no value";
\* and such a rule read to its end-tag has parsed.
C10_OneRuleEndToEnd ==
    /\ (entry = "dataValidation" /\ AllAttrsValid(arg) /\ ~doc.confusable
        /\ open = <<>>) => status = "ok"
    /\ (entry \in RuleEntries /\ processed # None /\ ~doc.confusable) =>
         /\ Len(processed[1]) = Len(doc.rules)
         /\ \A i \in 1..Len(doc.rules) :
              LET d == doc.rules[i]
                  p == processed[1][i]
              IN /\ \A k \in {"type", "sqref"} :
                      AttrOf(d.attrs, k) # None => p[k] = AttrOf(d.attrs, k)[1]
                 /\ \A k \in DVBoolKeys :
                      /\ AttrOf(d.attrs, k) = Some("1") => p[DVBoolField(k)] = TRUE
                      /\ AttrOf(d.attrs, k) = None => p[DVBoolField(k)] = FALSE
                 /\ (d.formula1 # None /\ d.formula2 = None) =>
                      (p.formula1 = d.formula1 /\ p.formula2 = None)

\* the rule of the scenario with a quoted list as its formula1
C10_Witness ==
    /\ entry = "dataValidations"
    /\ processed # None
    /\ ~doc.confusable
    /\ Len(doc.rules) = 1
    /\ doc.rules[1].attrs = ScenarioRuleTag
    /\ LET p == processed[1][1]
       IN /\ p.type = "list"
          /\ p.sqref = "A1:A10"
          /\ p.allow_blank
          /\ p.show_input_message
          /\ p.show_error_message
          /\ ~p.show_drop_down
          /\ p.formula1 = Some("\"a,b\"")
          /\ p.formula2 = None

\* the numeric coercions applied to an attribute that may be missing
FloatRule(o) == IF o = None THEN None ELSE string_to_float(o[1])
UintRule(o) == IF o = None THEN None ELSE string_to_unsignedint(o[1])

\* the pane record a pane start-tag stands for
ExpectedPane(attrs) ==
    [active_pane |-> AttrOf(attrs, "activePane"),
     state |-> AttrOf(attrs, "state"),
     top_left_cell |-> AttrOf(attrs, "topLeftCell"),
     x_split |-> FloatRule(AttrOf(attrs, "xSplit")),
     y_split |-> FloatRule(AttrOf(attrs, "ySplit")),
     split_horizontal |-> UintRule(AttrOf(attrs, "splitHorizontal")),
     split_vertical |-> UintRule(AttrOf(attrs, "splitVertical")),
     thin_horizontal |-> BoolRule(AttrOf(attrs, "thinHorizontal")),
     thin_vertical |-> BoolRule(AttrOf(attrs, "thinVertical"))]

\* C11: load_sheet_views returns one record per sheetView child in document
\* order; a record has a pane exactly when its sheetView has a pane child,
\* and that pane holds the values of the attributes of the pane start-tag.
\* Fails for a pane with thinHorizontal="1", which is stored as "no value"
\* (the failure of C5).
C11_ViewsInDocumentOrder ==
    (entry = "sheetViews" /\ status = "ok" /\ ~doc.confusable) =>
        /\ Len(ret) = Len(doc.views)
        /\ \A i \in 1..Len(doc.views) :
             ret[i].pane = (IF doc.views[i].pane = None THEN None
                            ELSE Some(ExpectedPane(doc.views[i].pane[1])))

\* a rule element whose parse fails with a decode error
RuleFails(r) ==
    \/ ~AllAttrsValid(r.attrs)
    \/ r.formula1 = Some(BadBytes)
    \/ r.formula2 = Some(BadBytes)

\* C12: a failed call returns no value and leaves no call in progress or
\* partial sequence behind; a container holding a child that fails has
\* failed with that child's error; and a container that returned Ok returned
\* every child element it holds.
C12_AllOrNothing ==
    /\ (status = "err") =>
         /\ ret = <<>>
         /\ processed = None
         /\ frames = <<>>
         /\ dvs = EmptyDataValidations
         /\ views = <<>>
    /\ (entry = "dataValidations" /\ ~doc.confusable) =>
         /\ (\E i \in 1..Len(doc.rules) : RuleFails(doc.rules[i])) =>
               (status = "err" /\ errmsg \in {AttrErrMsg, Utf8ErrMsg})
         /\ (status = "ok") => Len(ret.data_validations) = Len(doc.rules)
    /\ (entry = "sheetViews" /\ ~doc.confusable) =>
         /\ (\E i \in 1..Len(doc.views) :
                doc.views[i].pane # None /\ ~AllAttrsValid(doc.views[i].pane[1])) =>
               (status = "err" /\ errmsg \in {AttrErrMsg, Utf8ErrMsg})
         /\ (status = "ok") => Len(ret) = Len(doc.views)

\* a container whose first rule parsed and whose second rule failed
C12_Witness ==
    /\ entry = "dataValidations"
    /\ status = "err"
    /\ ~doc.confusable
    /\ Len(doc.rules) = 2
    /\ doc.rules[1].attrs = ScenarioRuleTag
    /\ ~RuleFails(doc.rules[1])
    /\ doc.rules[2].attrs = <<Attr("prompt", BadBytes)>>
    /\ errmsg = Utf8ErrMsg
    /\ ret = <<>>

\* the message names the element being parsed
NamesElement(m) ==
    \E el \in Recognized : m = EofMsg(el) \/ m = MissingEndMsg(el)

\* C13: every error a parser returns names the element being parsed. Fails
\* for decode errors and cursor errors, which are passed on as they are.
C13_ErrorsCarryContext == (status = "err") => NamesElement(errmsg)

\* the calls that read from the cursor until their own end-tag
LoopEntries == {"dataValidations", "dataValidation", "sheetViews"}

\* C14: a call that returned Ok has consumed the end-tag closing the
\* start-tag it was made for and nothing after it, so no element is left
\* open. Fails when a descendant has the local name of the element being
\* parsed: the loops stop at the first end-tag of that name.
C14_StopsAtOwnBoundary ==
    (entry \in LoopEntries /\ status = "ok") => open = <<>>

\* C15: what the rule parsers return is what the start-tags and the direct
\* formula children of the direct rule children say, whatever else the
\* element holds. Fails when an unrelated child holds an element named
\* dataValidation, formula1 or formula2: the loops match names at any depth
\* (stated for the calls that did read to their own end-tag).
C15_UnrelatedContentIgnored ==
    (entry \in RuleEntries /\ status = "ok" /\ open = <<>>) =>
        /\ Len(ParsedRules) = Len(doc.rules)
        /\ \A i \in 1..Len(doc.rules) : ParsedRules[i] = ExpectedRule(doc.rules[i])

\* the raw field a string attribute is stored in
DVStringField(k) ==
    CASE k = "error" -> "error_message"
      [] k = "errorTitle" -> "error_title"
      [] k = "operator" -> "operator"
      [] k = "prompt" -> "prompt"
      [] k = "promptTitle" -> "prompt_title"
      [] k = "sqref" -> "sqref"
      [] k = "type" -> "type"
PaneStringField(k) ==
    CASE k = "activePane" -> "active_pane"
      [] k = "state" -> "state"
      [] k = "topLeftCell" -> "top_left_cell"

\* the i-th attribute of the start-tag has a name no parser recognizes
UnknownAttr(attrs, i) == attrs[i].ok /\ attrs[i].key = UnknownKey

\* the attribute phase of XlsxDataValidation::load has failed
DVAttrPhaseFailed == status = "err" /\ nread = Len(arg) /\ ~atEof

\* C16: a field whose attribute is not on the start-tag is "no value", and
\* a start-tag gives the outcome and the fields it gives without any one of
\* its unrecognized attributes. Fails for an unrecognized attribute whose
\* value is not valid UTF-8: every value is decoded before its name is looked
\* at.
C16_UnknownAttributesIgnored ==
    /\ (entry = "dataValidation" /\ Top # "call") =>
         /\ \A i \in 1..Len(arg) : UnknownAttr(arg, i) =>
               (DVAttrPhaseFailed <=> ~DVLoadAttrs(Remove(arg, i)).ok)
         /\ (status = "ok") =>
               /\ \A k \in DVBoolKeys :
                    AttrOf(arg, k) = None => ret[DVBoolField(k)] = None
               /\ \A k \in DVStringKeys :
                    AttrOf(arg, k) = None => ret[DVStringField(k)] = None
    /\ (entry = "pane" /\ Top # "call") =>
         /\ \A i \in 1..Len(arg) : UnknownAttr(arg, i) =>
               /\ (status = "ok") <=> PaneLoad(Remove(arg, i)).ok
               /\ (status = "ok") => ret = PaneLoad(Remove(arg, i)).val
         /\ (status = "ok") =>
               /\ \A k \in PaneFloatKeys \cup PaneUintKeys \cup PaneBoolKeys :
                    AttrOf(arg, k) = None => ret[PaneField(k)] = None
               /\ \A k \in PaneStringKeys :
                    AttrOf(arg, k) = None => ret[PaneStringField(k)] = None

\* the attributes of a start-tag that fail the attribute phase
FailingAttrs(attrs) ==
    {i \in 1..Len(attrs) : ~attrs[i].ok \/ attrs[i].val = BadBytes}

\* the error of the first attribute that fails
FirstAttrError(attrs) ==
    LET i == CHOOSE j \in FailingAttrs(attrs) : \A k \in FailingAttrs(attrs) : j <= k
    IN IF attrs[i].ok THEN Utf8ErrMsg ELSE AttrErrMsg

\* C17 as stated: the attribute phase fails exactly when the value of some
\* attribute of the start-tag is not valid UTF-8.
C17_OnlyDecodeFails ==
    /\ (entry = "dataValidation" /\ Top # "call") =>
         (DVAttrPhaseFailed <=> \E i \in 1..Len(arg) : arg[i].val = BadBytes)
    /\ (entry = "pane" /\ Top # "call") =>
         ((status = "err") <=> \E i \in 1..Len(arg) : arg[i].val = BadBytes)

\* C17 amended: the attribute phase fails exactly when some attribute of the
\* start-tag is malformed or has a value that is not valid UTF-8, with the
\* error of the first such attribute.
C17_DecodeOrMalformedFails ==
    /\ (entry = "dataValidation" /\ Top # "call") =>
         /\ DVAttrPhaseFailed <=> FailingAttrs(arg) # {}
         /\ DVAttrPhaseFailed => errmsg = FirstAttrError(arg)
    /\ (entry = "pane" /\ Top # "call") =>
         /\ (status = "err") <=> FailingAttrs(arg) # {}
         /\ (status = "err") => errmsg = FirstAttrError(arg)

\* a pane start-tag with a soft miss and then a malformed attribute
C17_Witness ==
    /\ entry = "pane"
    /\ status = "err"
    /\ arg = <<Attr("xSplit", "abc"), MalformedAttr>>
    /\ errmsg = AttrErrMsg

\* C18: once XlsxSheetView::load has built the pane from its start-tag, the
\* events of the pane are consumed without changing the view: the skip lasts
\* while the pane is open, ends with the end-tag of that very pane (a pane
\* nested in it does not end it), after which the loop of the sheetView reads
\* the next event; end-of-input during the skip is an error.
C18_PaneSubtreeSkipped ==
    [][/\ (status = "running" /\ Top = "sheetView" /\ Top' = "read_to_end") =>
            /\ open' = Append(open, "pane")
            /\ skip'.base = Len(open)
            /\ view'.pane # None
       /\ (status = "running" /\ Top = "read_to_end") =>
            /\ (status' = "running") => (view' = view /\ views' = views)
            /\ (status' = "running" /\ Top' = "read_to_end") =>
                  (Len(open') > skip.base /\ open'[skip.base + 1] = "pane")
            /\ (status' = "running" /\ Top' # "read_to_end") =>
                  /\ Top' = "sheetView"
                  /\ open = Append(open', "pane")
                  /\ Len(open') = skip.base
                  /\ nread' = nread + 1
            /\ (atEof' /\ ~atEof) => (status' = "err" /\ ret' = <<>>)]_vars

\* a pane holding one nested element, skipped to its end-tag
C18_Witness ==
    /\ entry = "sheetViews"
    /\ status = "running"
    /\ Top = "sheetView"
    /\ open = <<"sheetViews", "sheetView">>
    /\ nread = 5
    /\ doc.confusable
    /\ Len(doc.views) = 1
    /\ doc.views[1].pane = Some(ScenarioPaneTag)
    /\ view.pane = Some(ExpectedPane(ScenarioPaneTag))

\* C19: a formula child that has been read replaces whatever its field held
\* and touches no other field, so the field ends with the last child of
\* its kind; a pane child replaces the pane of the view; the containers
\* append each finished child after the ones before it.
C19_LastChildWins ==
    [][/\ (/\ status = "running" /\ Top = "load_formula"
           /\ status' = "running" /\ Top' = "dataValidation") =>
            /\ dv'[slot] # None
            /\ dv' = [dv EXCEPT ![slot] = dv'[slot]]
            /\ ~doc'.confusable => dv'[slot] = doc'.rules[Len(doc'.rules)][slot]
       /\ (/\ status = "running" /\ Top = "sheetView"
           /\ status' = "running" /\ Top' = "read_to_end" /\ ~doc'.confusable) =>
            view'.pane = Some(PaneLoad(doc'.views[Len(doc'.views)].pane[1]).val)
       /\ (/\ status = "running" /\ Top = "dataValidation"
           /\ status' = "running" /\ Top' = "dataValidations") =>
            dvs'.data_validations = Append(dvs.data_validations, dv)
       /\ (/\ status = "running" /\ Top = "sheetView"
           /\ status' = "running" /\ Top' = "sheetViews") =>
            views' = Append(views, view)]_vars

\* a second formula1 child being read after a first one gave "=A1"
C19_Witness ==
    /\ entry = "dataValidation"
    /\ status = "running"
    /\ ~doc.confusable
    /\ Top = "load_formula"
    /\ slot = "formula1"
    /\ open = <<"dataValidation", "formula1">>
    /\ dv.formula1 = Some("=A1")
    /\ doc.rules[1].formula1 = Some("")

\* the cursor is inside a formula child of the rule being parsed
InFormulaChild(o) ==
    /\ Len(o) > Len(RulePath)
    /\ SubSeq(o, 1, Len(RulePath)) = RulePath
    /\ o[Len(RulePath) + 1] \in FormulaNames

\* C20: the first text event inside a formula child ends load_formula with
\* the field set to that text and the formula's end-tag unread; from then to
\* that end-tag the loop of the dataValidation consumes every event (text,
\* elements of other names, the end-tag) and changes no field. Documents
\* nesting an element of a recognized name are left out.
C20_FirstTextOnly ==
    [][/\ (/\ status = "running" /\ status' = "running" /\ ~doc.confusable
           /\ doc.capturing /\ ~doc'.capturing /\ open' = open) =>
            /\ Top = "load_formula"
            /\ Top' = "dataValidation"
            /\ InFormulaChild(open')
            /\ slot = open[Len(RulePath) + 1]
            /\ dv' = [dv EXCEPT ![slot] = doc'.rules[Len(doc'.rules)][slot]]
            /\ dv'[slot] \notin {None, Some("")}
       /\ (/\ status = "running" /\ status' = "running" /\ ~doc'.confusable
           /\ Top = "dataValidation" /\ InFormulaChild(open)) =>
            /\ Top' = "dataValidation"
            /\ dv' = dv
            /\ dvs' = dvs]_vars

\* a formula1 whose text was captured, with a later event of the formula
\* consumed by the loop of the rule
C20_Witness ==
    /\ entry = "dataValidation"
    /\ status = "running"
    /\ ~doc.confusable
    /\ Top = "dataValidation"
    /\ open = <<"dataValidation", "formula1">>
    /\ nread = Len(arg) + 3
    /\ ~doc.capturing
    /\ dv.formula1 = Some("\"a,b\"")
    /\ doc.rules[1].formula1 = Some("\"a,b\"")

====
